---------------------------- MODULE Spec2Model ----------------------------
(***************************************************************************)
(* A model of the fund-holdings pipeline of src/investmentfund.py:         *)
(*   parse_filename, validate_dataframe, ingest_csv,                       *)
(*   generate_reconciliation_report and generate_performance_report.       *)
(*                                                                         *)
(* Text is modelled as TLA+ strings used as character sequences (Len,      *)
(* SubSeq, \o).  Python's None for a text value is the string None below,  *)
(* which is neither a roster name nor a month/day/year date.               *)
(***************************************************************************)
EXTENDS Integers, Sequences, FiniteSets, TLC

VARIABLES
    pc,        \* position of the calling script: which method ran last / runs now
    filename,  \* the argument of parse_filename
    parsed,    \* the (fund_name, report_date) pair parse_filename returned
    raw_string, \* parse_filename: the text the date pattern matched, None for no match
    files,     \* ingest_csv: the .csv names os.listdir returned, in its order
    idx,       \* ingest_csv: number of files the for-loop has finished
    store,     \* rows of the table external_funds, in insertion order
    runlog,    \* entries appended to logs/investment_funds.log by the current run
    master,    \* rows of bond_prices and equity_prices (read-only reference data)
    recon,     \* out/price_reconciliation_analysis.csv, as last written
    perf,      \* out/best_performing_funds.csv, as last written
    out_dir    \* whether the directory out/ exists

vars == <<pc, filename, parsed, raw_string, files, idx, store, runlog, master, recon, perf, out_dir>>

None == "None"

Min(S) == CHOOSE x \in S : \A y \in S : x <= y
Max(S) == CHOOSE x \in S : \A y \in S : x >= y

Ch(s, i) == SubSeq(s, i, i)

(***************************************************************************)
(* Characters.                                                             *)
(***************************************************************************)
Digits == "0123456789"
UpperCase == "ABCDEFGHIJKLMNOPQRSTUVWXYZ"
LowerCase == "abcdefghijklmnopqrstuvwxyz"

IsDigit(c) == \E i \in 1..Len(Digits) : Ch(Digits, i) = c

DigitVal(c) == (CHOOSE i \in 1..Len(Digits) : Ch(Digits, i) = c) - 1

\* str.lower() on one character (ASCII letters; everything else is kept).
LowerChar(c) ==
    IF \E i \in 1..Len(UpperCase) : Ch(UpperCase, i) = c
    THEN Ch(LowerCase, CHOOSE i \in 1..Len(UpperCase) : Ch(UpperCase, i) = c)
    ELSE c

RECURSIVE ToLower(_)
ToLower(s) ==
    IF s = "" THEN ""
    ELSE LowerChar(Ch(s, 1)) \o ToLower(SubSeq(s, 2, Len(s)))

\* Python's `needle in hay` for strings.
Contains(hay, needle) ==
    \E i \in 1..(Len(hay) - Len(needle) + 1) :
        SubSeq(hay, i, i + Len(needle) - 1) = needle

(***************************************************************************)
(* parse_filename: the fund name (lines 52-57).                            *)
(***************************************************************************)
fund_names ==
    << "Whitestone", "Wallington", "Catalysm", "Belaware", "Gohen",
       "Applebead", "Magnum", "Trustmind", "Leeder", "Virtous" >>

\* The roster entries whose lower-cased spelling occurs in the lower-cased name.
RosterHits(fn) ==
    { i \in 1..Len(fund_names) : Contains(ToLower(fn), ToLower(fund_names[i])) }

\* The wrong loop: the last matching roster entry instead of the first.
FundNameLastMatch(fn) ==
    IF RosterHits(fn) = {} THEN None ELSE fund_names[Max(RosterHits(fn))]

\* for name in fund_names: if name.lower() in filename.lower(): ...; break
FundName(fn) ==
    IF RosterHits(fn) = {} THEN None ELSE fund_names[Min(RosterHits(fn))]

(***************************************************************************)
(* parse_filename: locating the date token (lines 59-66).                  *)
(*   (\d{8}|\d{2,4}[-._/+\s]\d{2}[-._/+\s]\d{2,4})                         *)
(***************************************************************************)
\* [-._/+\s]; of \s the space, tab, newline, carriage return and form feed.
IsDelimiter(c) == c \in {"-", ".", "_", "/", "+", " ", "\t", "\n", "\r", "\f"}

\* n digits start at position i of s.
DigitsAt(s, i, n) ==
    /\ i + n - 1 <= Len(s)
    /\ \A k \in i..(i + n - 1) : IsDigit(Ch(s, k))

\* \d{2}[-._/+\s]\d{2,4} at position i, after a first group and delimiter:
\* the length matched, the last group greedy; 0 when it does not match.
TailLen(s, i) ==
    IF /\ DigitsAt(s, i, 2)
       /\ i + 2 <= Len(s) /\ IsDelimiter(Ch(s, i + 2))
       /\ DigitsAt(s, i + 3, 2)
    THEN 3 + Max({n \in 2..4 : DigitsAt(s, i + 3, n)})
    ELSE 0

\* The first group \d{2,4} takes n digits and the rest of the pattern follows.
DelimitedWith(s, i, n) ==
    /\ DigitsAt(s, i, n)
    /\ i + n <= Len(s) /\ IsDelimiter(Ch(s, i + n))
    /\ TailLen(s, i + n + 1) > 0

\* Length of the match of the pattern anchored at position i; 0 for no match.
\* The alternation tries \d{8} first; \d{2,4} is greedy (4, then 3, then 2).
MatchLenAt(s, i) ==
    IF DigitsAt(s, i, 8) THEN 8
    ELSE IF \E n \in 2..4 : DelimitedWith(s, i, n)
         THEN LET n == Max({m \in 2..4 : DelimitedWith(s, i, m)})
              IN  n + 1 + TailLen(s, i + n + 1)
         ELSE 0

MatchStarts(s) == { i \in 1..Len(s) : MatchLenAt(s, i) > 0 }

\* re.search: the leftmost match; None when there is none (match.group(0)).
DateToken(s) ==
    IF MatchStarts(s) = {} THEN None
    ELSE LET i == Min(MatchStarts(s))
         IN  SubSeq(s, i, i + MatchLenAt(s, i) - 1)

\* re.sub(r'[^0-9]', '-', raw_string)
RECURSIVE CleanDate(_)
CleanDate(s) ==
    IF s = "" THEN ""
    ELSE (IF IsDigit(Ch(s, 1)) THEN Ch(s, 1) ELSE "-")
         \o CleanDate(SubSeq(s, 2, Len(s)))

(***************************************************************************)
(* datetime.strptime on the cleaned token (lines 71-79).  strptime turns   *)
(* the format into a regular expression without an end anchor, takes its   *)
(* first match, and raises ValueError when there is none, when text is     *)
(* left over, or when the fields are no calendar date:                     *)
(*   %d  3[0-1]|[1-2]\d|0[1-9]|[1-9]     %m  1[0-2]|0[1-9]|[1-9]           *)
(*   %Y  \d\d\d\d                                                          *)
(***************************************************************************)
formats == << "%d-%m-%Y", "%m-%d-%Y", "%Y-%m-%d", "%Y%m%d" >>

\* The format as a sequence of items: a directive letter for %x, else the
\* literal character.
RECURSIVE Directives(_)
Directives(fmt) ==
    IF fmt = "" THEN << >>
    ELSE IF Ch(fmt, 1) = "%"
         THEN << [dir |-> TRUE, c |-> Ch(fmt, 2)] >> \o Directives(SubSeq(fmt, 3, Len(fmt)))
         ELSE << [dir |-> FALSE, c |-> Ch(fmt, 1)] >> \o Directives(SubSeq(fmt, 2, Len(fmt)))

RECURSIVE NumVal(_)
NumVal(s) ==
    IF s = "" THEN 0
    ELSE 10 * NumVal(SubSeq(s, 1, Len(s) - 1)) + DigitVal(Ch(s, Len(s)))

\* The two-character alternatives of %d and %m, and the one-character one.
TwoCharField(dir, t) ==
    /\ Len(t) = 2
    /\ IsDigit(Ch(t, 1)) /\ IsDigit(Ch(t, 2))
    /\ IF dir = "d"
       THEN \/ Ch(t, 1) = "3" /\ Ch(t, 2) \in {"0", "1"}
            \/ Ch(t, 1) \in {"1", "2"}
            \/ Ch(t, 1) = "0" /\ Ch(t, 2) # "0"
       ELSE \/ Ch(t, 1) = "1" /\ Ch(t, 2) \in {"0", "1", "2"}
            \/ Ch(t, 1) = "0" /\ Ch(t, 2) # "0"

OneCharField(t) == Len(t) = 1 /\ IsDigit(t) /\ t # "0"

NoMatch == [ok |-> FALSE, end |-> 0, d |-> 0, m |-> 0, Y |-> 0]

SetField(r, dir, v) ==
    IF ~r.ok THEN r
    ELSE IF dir = "d" THEN [r EXCEPT !.d = v]
    ELSE IF dir = "m" THEN [r EXCEPT !.m = v]
    ELSE [r EXCEPT !.Y = v]

\* The first match, in the regular expression's backtracking order, of
\* items k.. of the format against s from position pos: where it ends and
\* the fields it captured.
RECURSIVE FirstMatch(_, _, _, _)
FirstMatch(s, pos, items, k) ==
    IF k > Len(items) THEN [ok |-> TRUE, end |-> pos, d |-> 0, m |-> 0, Y |-> 0]
    ELSE LET it == items[k] IN
         IF ~it.dir
         THEN IF pos <= Len(s) /\ Ch(s, pos) = it.c
              THEN FirstMatch(s, pos + 1, items, k + 1)
              ELSE NoMatch
         ELSE IF it.c = "Y"
         THEN IF DigitsAt(s, pos, 4)
              THEN SetField(FirstMatch(s, pos + 4, items, k + 1), "Y",
                            NumVal(SubSeq(s, pos, pos + 3)))
              ELSE NoMatch
         ELSE LET two == SubSeq(s, pos, pos + 1)
                  one == SubSeq(s, pos, pos)
                  r2  == IF pos + 1 <= Len(s) /\ TwoCharField(it.c, two)
                         THEN SetField(FirstMatch(s, pos + 2, items, k + 1),
                                       it.c, NumVal(two))
                         ELSE NoMatch
              IN  IF r2.ok THEN r2
                  ELSE IF pos <= Len(s) /\ OneCharField(one)
                       THEN SetField(FirstMatch(s, pos + 1, items, k + 1),
                                     it.c, NumVal(one))
                       ELSE NoMatch

IsLeap(y) == y % 4 = 0 /\ (y % 100 # 0 \/ y % 400 = 0)

DaysInMonth(y, m) ==
    IF m = 2 THEN (IF IsLeap(y) THEN 29 ELSE 28)
    ELSE IF m \in {4, 6, 9, 11} THEN 30 ELSE 31

ValueError == [ok |-> FALSE, year |-> 0, month |-> 0, day |-> 0]

\* datetime.strptime(s, fmt): the datetime, or ValueError.
Strptime(s, fmt) ==
    LET r == FirstMatch(s, 1, Directives(fmt), 1)
    IN  IF /\ r.ok
           /\ r.end = Len(s) + 1            \* else "unconverted data remains"
           /\ r.Y >= 1                      \* datetime.MINYEAR
           /\ r.m \in 1..12
           /\ r.d \in 1..DaysInMonth(r.Y, r.m)
        THEN [ok |-> TRUE, year |-> r.Y, month |-> r.m, day |-> r.d]
        ELSE ValueError

\* str(n) for n >= 0, as the f-string renders an int.
RECURSIVE IntToStr(_)
IntToStr(n) ==
    IF n < 10 THEN Ch(Digits, n + 1)
    ELSE IntToStr(n \div 10) \o Ch(Digits, (n % 10) + 1)

\* f"{dt.month}/{dt.day}/{dt.year}"
FormatDate(dt) ==
    IntToStr(dt.month) \o "/" \o IntToStr(dt.day) \o "/" \o IntToStr(dt.year)

\* The wrong check: every parsed day is taken.
AcceptsAnyDay(dt) == dt.day >= 1

\* if dt.day >= 28
AcceptsDay(dt) == dt.day >= 28

\* The layouts, by position in formats, that parse the cleaned token and
\* pass the day check.
AcceptingLayouts(clean) ==
    { k \in 1..Len(formats) :
        LET dt == Strptime(clean, formats[k]) IN dt.ok /\ AcceptsDay(dt) }

\* for format in formats: try ... return at the first accepted layout;
\* after the loop: return None.
StandardDate(clean) ==
    IF AcceptingLayouts(clean) = {} THEN None
    ELSE FormatDate(Strptime(clean, formats[Min(AcceptingLayouts(clean))]))

\* The report date parse_filename returns.
ReportDate(fn) ==
    IF DateToken(fn) = None THEN None
    ELSE StandardDate(CleanDate(DateToken(fn)))

parse_filename(fn) == << FundName(fn), ReportDate(fn) >>

(***************************************************************************)
(* Tables.  A DataFrame is [columns: set of names, rows: sequence of       *)
(* functions from its columns to cells].  A text cell is a string, None    *)
(* when empty.  A cell of a numeric column is [k, v]: k = "num" a number   *)
(* v, k = "nan" a missing value, k = "str" text that is not a number.      *)
(***************************************************************************)
Num(v) == [k |-> "num", v |-> v]
NaN == [k |-> "nan", v |-> 0]
Str == [k |-> "str", v |-> 0]

fund_cols ==
    << "FINANCIAL TYPE", "SYMBOL", "SECURITY NAME", "ISIN",
       "PRICE", "QUANTITY", "REALISED P/L", "MARKET VALUE" >>

numeric_cols == << "PRICE", "QUANTITY", "REALISED P/L", "MARKET VALUE" >>

\* The columns of CREATE TABLE "external_funds" (lines 111-125).
TableColumns ==
    { "FUND NAME", "FINANCIAL TYPE", "SYMBOL", "SEDOL", "SECURITY NAME",
      "ISIN", "PRICE", "QUANTITY", "REALISED P/L", "MARKET VALUE",
      "REPORT DATE" }

RealColumns == { "PRICE", "QUANTITY", "REALISED P/L", "MARKET VALUE" }

SeqToSet(q) == { q[i] : i \in 1..Len(q) }

LogEntry(level, what, file, detail) ==
    [level |-> level, what |-> what, file |-> file, detail |-> detail]

(***************************************************************************)
(* validate_dataframe (lines 84-104).  The result says whether the call    *)
(* raised (df[col] on an absent column is a KeyError), the table as left   *)
(* behind, and the warnings logged up to the return or the raise.          *)
(***************************************************************************)
\* pd.api.types.is_numeric_dtype(df[col]): no cell of the column is text.
IsNumericDtype(df, col) ==
    \A i \in 1..Len(df.rows) : df.rows[i][col].k # "str"

\* pd.to_numeric(df[col], errors='coerce'): text that is no number is NaN.
Coerce(df, col) ==
    [df EXCEPT !.rows =
        [i \in 1..Len(df.rows) |->
            [df.rows[i] EXCEPT ![col] = IF @.k = "str" THEN NaN ELSE @]]]

MissingColumns(df) == SelectSeq(fund_cols, LAMBDA c : c \notin df.columns)

\* for col in self.numeric_cols: ... (lines 93-97), from the k-th column on.
RECURSIVE CheckNumeric(_, _, _, _)
CheckNumeric(df, k, filename_, warnings) ==
    IF k > Len(numeric_cols)
    THEN [raised |-> FALSE, key |-> None, df |-> df, warnings |-> warnings]
    ELSE LET col == numeric_cols[k] IN
         IF col \notin df.columns
         THEN [raised |-> TRUE, key |-> col, df |-> df, warnings |-> warnings]
         ELSE IF ~IsNumericDtype(df, col)
         THEN CheckNumeric(Coerce(df, col), k + 1, filename_,
                  Append(warnings,
                         LogEntry("WARNING", "not numeric", filename_, <<col>>)))
         ELSE CheckNumeric(df, k + 1, filename_, warnings)

\* Lines 87-90: the warning for the required columns the table has not.
MissingWarning(df, filename_) ==
    IF MissingColumns(df) # << >>
    THEN << LogEntry("WARNING", "missing columns", filename_, MissingColumns(df)) >>
    ELSE << >>

\* Lines 99-104 after the type check num: the warning for NULL prices, and
\* the return.
CheckNulls(num, filename_) ==
    IF num.raised THEN num
    ELSE IF \E i \in 1..Len(num.df.rows) : num.df.rows[i]["PRICE"].k = "nan"
         THEN [num EXCEPT !.warnings =
                  Append(@, LogEntry("WARNING", "NULL prices", filename_, << >>))]
         ELSE num

validate_dataframe(df, fund_name, filename_) ==
    CheckNulls(CheckNumeric(df, 1, filename_, MissingWarning(df, filename_)),
               filename_)

(***************************************************************************)
(* SpecParse: parse_filename applied to one file name.                     *)
(***************************************************************************)
MaxNameParts == 2

NameParts ==
    { "Whitestone", "WHITESTONE", "gohen", "magNUM", "Leeder", "Report", "Wall" }

RECURSIVE NameStems(_)
NameStems(n) ==
    IF n = 0 THEN { "" }
    ELSE NameStems(n - 1)
         \cup { st \o p \o "_" : st \in NameStems(n - 1), p \in NameParts }

OuterGroups ==
    { "27", "28", "29", "31", "02", "12", "13", "22", "031",
      "2022", "2023", "2024" }
MiddleGroups == { "02", "12", "13", "28", "29", "31" }
TokenDelimiters == { "-", "_" }

DelimitedTokens ==
    { a \o dl \o b \o dl \o c :
        a \in OuterGroups, b \in MiddleGroups, c \in OuterGroups,
        dl \in TokenDelimiters }

CompactTokens ==
    { a \o b : a \in { "2022", "2023", "2024", "3112", "2802" },
               b \in { "1231", "0229", "0228", "0227", "1331", "2022", "0230" } }

ParseInputs ==
    { "Fund_" \o t \o ".csv" : t \in DelimitedTokens \cup CompactTokens }
    \cup { st \o "31.12.2022.csv" : st \in NameStems(MaxNameParts) }
    \cup { st \o "positions.csv" : st \in NameStems(MaxNameParts) }
    \cup { "2022-12-31_Whitestone_Position.csv", "Belaware_31_08_2022.csv" }

Idle ==
    /\ files = << >> /\ idx = 0 /\ store = << >> /\ runlog = << >>
    /\ master = << >> /\ recon = << >> /\ perf = << >> /\ out_dir = FALSE

InitParse ==
    /\ pc = "parse"
    /\ filename \in ParseInputs
    /\ parsed = << >> /\ raw_string = None
    /\ Idle

ParseFilename ==
    /\ pc = "parse"
    /\ raw_string' = DateToken(filename)
    /\ parsed' = parse_filename(filename)
    /\ pc' = "parsed"
    /\ UNCHANGED <<filename, files, idx, store, runlog, master, recon, perf, out_dir>>

NextParse == ParseFilename

SpecParse == InitParse /\ [][NextParse]_vars

(***************************************************************************)
(* What a cleaned token says under each layout, read off its hyphen-       *)
(* separated digit groups (not through strptime).                          *)
(***************************************************************************)
RECURSIVE SplitOn(_, _)
SplitOn(s, c) ==
    IF \E i \in 1..Len(s) : Ch(s, i) = c
    THEN LET i == Min({ j \in 1..Len(s) : Ch(s, j) = c })
         IN  << SubSeq(s, 1, i - 1) >> \o SplitOn(SubSeq(s, i + 1, Len(s)), c)
    ELSE << s >>

IsCalendarDate(y, m, d) ==
    y >= 1 /\ m \in 1..12 /\ d \in 1..DaysInMonth(y, m)

\* The (year, month, day) groups of the token under layout k, as digit
\* strings; << >> when the token has not the layout's shape.
LayoutGroups(clean, k) ==
    LET g == SplitOn(clean, "-") IN
    IF k = 1 /\ Len(g) = 3 /\ Len(g[1]) = 2 /\ Len(g[2]) = 2 /\ Len(g[3]) = 4
        THEN << g[3], g[2], g[1] >>
    ELSE IF k = 2 /\ Len(g) = 3 /\ Len(g[1]) = 2 /\ Len(g[2]) = 2 /\ Len(g[3]) = 4
        THEN << g[3], g[1], g[2] >>
    ELSE IF k = 3 /\ Len(g) = 3 /\ Len(g[1]) = 4 /\ Len(g[2]) = 2 /\ Len(g[3]) = 2
        THEN << g[1], g[2], g[3] >>
    ELSE IF k = 4 /\ Len(g) = 1 /\ Len(clean) = 8
        THEN << SubSeq(clean, 1, 4), SubSeq(clean, 5, 6), SubSeq(clean, 7, 8) >>
    ELSE << >>

\* Layout k reads the token as a calendar date.
Denotes(clean, k) ==
    /\ LayoutGroups(clean, k) # << >>
    /\ LET g == LayoutGroups(clean, k)
       IN  IsCalendarDate(NumVal(g[1]), NumVal(g[2]), NumVal(g[3]))

DenotedDay(clean, k) == NumVal(LayoutGroups(clean, k)[3])

\* txt is the date of layout k written month/day/year, no leading zeros.
WritesDate(txt, clean, k) ==
    LET g == LayoutGroups(clean, k)
        t == SplitOn(txt, "/")
    IN  /\ Len(t) = 3
        /\ \A i \in 1..3 : Len(t[i]) >= 1 /\ Ch(t[i], 1) # "0"
                           /\ DigitsAt(t[i], 1, Len(t[i]))
        /\ NumVal(t[1]) = NumVal(g[2])
        /\ NumVal(t[2]) = NumVal(g[3])
        /\ NumVal(t[3]) = NumVal(g[1])

\* C5: for every located date token: if some layout reads it as a calendar
\* date with day-of-month >= 28, then exactly one of the four layouts does,
\* no layout reads it with a smaller day, and parse_filename returns that
\* date written month/day/year without leading zeros; if no layout reads
\* it with a day >= 28, parse_filename returns no date.
C5_DateDisambiguation ==
    (pc = "parsed" /\ DateToken(filename) # None) =>
        LET clean == CleanDate(DateToken(filename))
            reads == { k \in 1..4 : Denotes(clean, k) }
            late  == { k \in reads : DenotedDay(clean, k) >= 28 }
        IN  /\ late # {} =>
                /\ Cardinality(late) = 1
                /\ reads = late
                /\ \A k \in late : WritesDate(parsed[2], clean, k)
            /\ late = {} => parsed[2] = None

\* C5 witness: the day-first file name of the repository's test is parsed
\* to 8/31/2022.
C5_Witness ==
    /\ pc = "parsed"
    /\ filename = "Belaware_31_08_2022.csv"
    /\ parsed[2] = "8/31/2022"

(***************************************************************************)
(* C6.                                                                     *)
(***************************************************************************)
SameIgnoringCase(c1, c2) ==
    \/ c1 = c2
    \/ \E i \in 1..Len(UpperCase) :
          {c1, c2} = {Ch(UpperCase, i), Ch(LowerCase, i)}

\* name occurs in fn as a substring, letter case ignored.
OccursIn(name, fn) ==
    \E at \in 0..(Len(fn) - Len(name)) :
        \A k \in 1..Len(name) : SameIgnoringCase(Ch(name, k), Ch(fn, at + k))

\* C6: the fund name parse_filename returns is the exact roster spelling
\* of the first roster entry, in roster order, that occurs in the file name
\* ignoring case; when no roster entry occurs it is None.
C6_FundNameExtraction ==
    pc = "parsed" =>
        /\ (\A i \in 1..Len(fund_names) : ~OccursIn(fund_names[i], filename))
              => parsed[1] = None
        /\ \A i \in 1..Len(fund_names) :
              ( /\ OccursIn(fund_names[i], filename)
                /\ \A j \in 1..(i - 1) : ~OccursIn(fund_names[j], filename) )
              => parsed[1] = fund_names[i]

\* C6 witness: a name holding two roster names, the later roster entry
\* written first and in mixed case, resolves to the earlier roster entry.
C6_Witness ==
    /\ pc = "parsed"
    /\ OccursIn("Magnum", filename) /\ OccursIn("Gohen", filename)
    /\ ~Contains(filename, "Gohen")
    /\ parsed[1] = "Gohen"

(***************************************************************************)
(* The input folder external-funds.  A file is [readable, columns, rows]:  *)
(* readable says whether pd.read_csv returns a table.                      *)
(***************************************************************************)
HoldingRow(ftype, symbol, secname, isin, price, qty, pl, mv) ==
    [c \in SeqToSet(fund_cols) |->
        CASE c = "FINANCIAL TYPE" -> ftype
          [] c = "SYMBOL"         -> symbol
          [] c = "SECURITY NAME"  -> secname
          [] c = "ISIN"           -> isin
          [] c = "PRICE"          -> price
          [] c = "QUANTITY"       -> qty
          [] c = "REALISED P/L"   -> pl
          [] c = "MARKET VALUE"   -> mv]

Without(row, col) == [c \in (DOMAIN row) \ {col} |-> row[c]]

CsvFile(readable, rows) ==
    [readable |-> readable,
     columns  |-> IF rows = << >> THEN {} ELSE DOMAIN rows[1],
     rows     |-> rows]

Disk ==
    ( "Whitestone_31-12-2022.csv" :>
        CsvFile(TRUE, << HoldingRow("Equities", "AAA", "W1", "US01",
                                    Num(10), Num(5), Num(0), Num(50)) >>) )
 @@ ( "gohen.28.02.2023.csv" :>
        CsvFile(TRUE,
          << ("SEDOL" :> "B01") @@
             HoldingRow("Equities", "BBB", "G1", "US02",
                        Num(20), Num(2), Num(1), Num(40)),
             ("SEDOL" :> None) @@
             HoldingRow("Government Bond", None, "G2", "GB03",
                        NaN, Str, Num(0), Num(30)) >>) )
 @@ ( "Magnum_15-01-2023.csv" :>
        CsvFile(TRUE, << HoldingRow("Equities", "AAA", "M1", "US01",
                                    Num(11), Num(1), Num(2), Num(11)) >>) )
 @@ ( "Leeder_2023-01-31.csv" :>
        CsvFile(TRUE, << Without(HoldingRow("Equities", "AAA", "L1", "US01",
                                            Num(12), Num(1), Num(0), Num(12)),
                                 "PRICE") >>) )
 @@ ( "Report_01-31-2023.csv" :>
        CsvFile(TRUE, << Without(HoldingRow("Government Bond", None, "R1", "GB03",
                                            Num(99), Num(1), Num(0), Num(99)),
                                 "SYMBOL") >>) )
 @@ ( "Virtous_20230131.csv" :> CsvFile(FALSE, << >>) )
 @@ ( "Applebead 2022-12-31.csv" :>
        CsvFile(TRUE,
          << ("NOTES" :> "checked") @@
             HoldingRow("Equities", "BBB", "A1", "US02",
                        Num(21), Num(1), Num(0), Num(21)) >>) )

\* What os.listdir can hold: the files above and one that is no .csv.
FolderEntries == (DOMAIN Disk) \cup { "notes.txt" }

\* parse_filename on the names of the folder.
ParsedName[n \in FolderEntries] == parse_filename(n)

\* str.endswith
EndsWith(s, suffix) ==
    Len(s) >= Len(suffix) /\ SubSeq(s, Len(s) - Len(suffix) + 1, Len(s)) = suffix

(***************************************************************************)
(* ingest_csv, one pass of the for-loop (lines 134-153): what the file     *)
(* adds to the table and to the log.  to_sql inserts all rows in one       *)
(* transaction, so a failing insert leaves no row behind.                  *)
(***************************************************************************)
\* The table row to_sql writes for a row of the tagged DataFrame: a column
\* the DataFrame has not is NULL (NaN when read back from a REAL column).
TableRow(row, fund_name, report_date) ==
    [c \in TableColumns |->
        IF c = "FUND NAME" THEN fund_name
        ELSE IF c = "REPORT DATE" THEN report_date
        ELSE IF c \in DOMAIN row THEN row[c]
        ELSE IF c \in RealColumns THEN NaN ELSE None]

TableRows(df, fund_name, report_date) ==
    [i \in 1..Len(df.rows) |-> TableRow(df.rows[i], fund_name, report_date)]

Failure(file, error, warnings) ==
    [raised |-> TRUE, rows |-> << >>,
     log |-> Append(warnings,
                    LogEntry("ERROR", "Failed to process", file, <<error>>))]

\* The wrong order: the rows are written although validation raised.
StoreValidatedAnyway(file, fund_name, report_date, v) ==
    IF v.raised
    THEN [raised |-> TRUE,
          rows |-> TableRows(v.df, fund_name, report_date),
          log |-> Append(v.warnings,
                         LogEntry("ERROR", "Failed to process", file, <<"KeyError">>))]
    ELSE IF ~(v.df.columns \subseteq TableColumns)
    THEN Failure(file, "to_sql", v.warnings)
    ELSE [raised |-> FALSE,
          rows |-> TableRows(v.df, fund_name, report_date),
          log |-> Append(v.warnings,
                         LogEntry("INFO", "Ingested", file, <<fund_name>>))]

\* Lines 141-150 for the outcome v of validate_dataframe: a KeyError ends
\* the pass; else the table is tagged and appended, and to_sql raises on a
\* column the store has not.
StoreValidated(file, fund_name, report_date, v) ==
    IF v.raised THEN Failure(file, "KeyError", v.warnings)
    ELSE IF ~(v.df.columns \subseteq TableColumns)
    THEN Failure(file, "to_sql", v.warnings)
    ELSE [raised |-> FALSE,
          rows |-> TableRows(v.df, fund_name, report_date),
          log |-> Append(v.warnings,
                         LogEntry("INFO", "Ingested", file, <<fund_name>>))]

\* Lines 137-141 for the parsed name and the file f: read_csv, validation.
LoadAndStore(file, fund_name, report_date, f) ==
    IF ~f.readable THEN Failure(file, "read_csv", << >>)
    ELSE StoreValidated(file, fund_name, report_date,
             validate_dataframe([columns |-> f.columns, rows |-> f.rows],
                                fund_name, file))

\* try: parse_filename, read_csv, validate_dataframe, tag, to_sql, log;
\* except Exception: log the failure and continue.
ProcessFile(file) ==
    LoadAndStore(file, ParsedName[file][1], ParsedName[file][2], Disk[file])

\* The wrong start: CREATE TABLE IF NOT EXISTS without the DROP before it.
CreateOnly(table) == table

\* DROP TABLE IF EXISTS "external_funds"; CREATE TABLE ... (lines 110-125)
DropAndCreate(table) == << >>

(***************************************************************************)
(* Spec: runs of ingest_csv, one after another.                            *)
(***************************************************************************)
MaxFiles == 3

\* The listings os.listdir can return: up to n distinct entries, any order.
RECURSIVE Listings(_)
Listings(n) ==
    IF n = 0 THEN { << >> }
    ELSE LET shorter == Listings(n - 1)
         IN  shorter \cup
             UNION { { Append(l, e) : e \in FolderEntries \ SeqToSet(l) } :
                     l \in { x \in shorter : Len(x) = n - 1 } }

\* files = [f for f in os.listdir(csv_folder) if f.endswith('.csv')], for
\* every listing of the folder.
CsvListings ==
    { SelectSeq(l, LAMBDA f : EndsWith(f, ".csv")) : l \in Listings(MaxFiles) }

\* A table left in master_reference.db by an earlier process.
LeftoverRows ==
    << TableRow(HoldingRow("Equities", "ZZZ", "OLD", "US09",
                           Num(1), Num(1), Num(0), Num(1)),
                "Trustmind", "11/30/2022") >>

NoReports == master = << >> /\ recon = << >> /\ perf = << >> /\ out_dir = FALSE

Init ==
    /\ pc = "idle"
    /\ filename = "" /\ parsed = << >> /\ raw_string = None
    /\ files = << >> /\ idx = 0
    /\ store \in { << >>, LeftoverRows }
    /\ runlog = << >>
    /\ NoReports

\* ingest_csv up to the loop, the folder missing: the table is recreated,
\* the error is printed, the method returns (lines 107-131).
IngestNoFolder ==
    /\ pc \in { "idle", "done", "nofolder" }
    /\ store' = DropAndCreate(store)
    /\ runlog' = << >>
    /\ files' = << >> /\ idx' = 0
    /\ pc' = "nofolder"
    /\ UNCHANGED <<filename, parsed, raw_string, master, recon, perf, out_dir>>

\* ingest_csv up to the loop: the table is recreated and the folder's .csv
\* names are listed (lines 107-133).
IngestStart ==
    /\ pc \in { "idle", "done", "nofolder" }
    /\ files' \in CsvListings
    /\ store' = DropAndCreate(store)
    /\ runlog' = << >>
    /\ idx' = 0
    /\ pc' = "ingesting"
    /\ UNCHANGED <<filename, parsed, raw_string, master, recon, perf, out_dir>>

\* One pass of the loop.
IngestFile ==
    /\ pc = "ingesting" /\ idx < Len(files)
    /\ \E r \in { ProcessFile(files[idx + 1]) } :
          /\ store' = store \o r.rows
          /\ runlog' = runlog \o r.log
    /\ idx' = idx + 1
    /\ UNCHANGED <<pc, filename, parsed, raw_string, files, master, recon, perf, out_dir>>

\* The loop is over: conn.close() (line 155).
IngestEnd ==
    /\ pc = "ingesting" /\ idx = Len(files)
    /\ pc' = "done"
    /\ UNCHANGED <<filename, parsed, raw_string, files, idx, store, runlog, master, recon, perf, out_dir>>

Next == IngestNoFolder \/ IngestStart \/ IngestFile \/ IngestEnd

Spec == Init /\ [][Next]_vars

(***************************************************************************)
(* Claims about ingest_csv.  Every row of the folder carries its own       *)
(* SECURITY NAME, so the rows of the store are told apart by it.           *)
(***************************************************************************)
SecurityNames(rows) == [i \in 1..Len(rows) |-> rows[i]["SECURITY NAME"]]

\* The security names of the files among the first n of fl whose
\* processing does not raise, in the order of fl.
RECURSIVE RowsOfProcessed(_, _)
RowsOfProcessed(fl, n) ==
    IF n = 0 THEN << >>
    ELSE RowsOfProcessed(fl, n - 1)
         \o (IF ProcessFile(fl[n]).raised THEN << >>
             ELSE SecurityNames(Disk[fl[n]].rows))

FailureLogged(file) ==
    \E k \in 1..Len(runlog) :
        /\ runlog[k].level = "ERROR"
        /\ runlog[k].what = "Failed to process"
        /\ runlog[k].file = file

WarnedMissing(file) ==
    \E k \in 1..Len(runlog) :
        /\ runlog[k].level = "WARNING"
        /\ runlog[k].what = "missing columns"
        /\ runlog[k].file = file

RequiredColumnsMissing(file) ==
    { c \in SeqToSet(fund_cols) : c \notin Disk[file].columns }

\* C1: for every file that was loaded (read_csv returned a table whose
\* columns the store has) and lacks exactly one of the 8 required columns,
\* validation reports the gap as a warning and returns, so no failure is
\* logged for the file and its rows are in the store.
C1_MissingColumnOnlyWarns ==
    \A i \in 1..idx :
        ( /\ Disk[files[i]].readable
          /\ Disk[files[i]].columns \subseteq TableColumns
          /\ Cardinality(RequiredColumnsMissing(files[i])) = 1 )
        => /\ WarnedMissing(files[i])
           /\ ~FailureLogged(files[i])
           /\ \A r \in 1..Len(Disk[files[i]].rows) :
                 \E k \in 1..Len(store) :
                    store[k]["SECURITY NAME"] = Disk[files[i]].rows[r]["SECURITY NAME"]

\* C2: when a run of ingest_csv is over, every listed file has been
\* processed, the store holds exactly the rows of the files whose
\* processing did not raise, in file order, and none of a failing file,
\* and a failure is logged for exactly the failing files.
C2_FailureIsolation ==
    pc = "done" =>
        /\ idx = Len(files)
        /\ SecurityNames(store) = RowsOfProcessed(files, Len(files))
        /\ \A i \in 1..Len(files) :
              ProcessFile(files[i]).raised <=> FailureLogged(files[i])

\* C2 witness: a finished run over three files, the second of which
\* failed, with the rows of the first and of the third in the store.
C2_Witness ==
    /\ pc = "done" /\ Len(files) = 3
    /\ ~ProcessFile(files[1]).raised
    /\ ProcessFile(files[2]).raised /\ FailureLogged(files[2])
    /\ ~ProcessFile(files[3]).raised
    /\ Len(store) = Len(Disk[files[1]].rows) + Len(Disk[files[3]].rows)
    /\ store[Len(store)]["SECURITY NAME"]
         = Disk[files[3]].rows[Len(Disk[files[3]].rows)]["SECURITY NAME"]

\* C10: from the moment a run has recreated the store, the store holds
\* exactly the rows of the files this run has processed successfully so
\* far and no row of an earlier run or of an earlier process; a run that
\* finds no folder or no file leaves it empty.
C10_DropAndReload ==
    pc \in { "ingesting", "done", "nofolder" } =>
        /\ SecurityNames(store) = RowsOfProcessed(files, idx)
        /\ (pc = "nofolder" \/ files = << >>) => store = << >>

\* C10 witness: a finished run that left rows in the store, one of its
\* files having been skipped.
C10_Witness ==
    /\ pc = "done" /\ store # << >>
    /\ \E i \in 1..Len(files) : FailureLogged(files[i])
    /\ SecurityNames(store) = RowsOfProcessed(files, Len(files))

(***************************************************************************)
(* generate_reconciliation_report (lines 157-206).                         *)
(* A timestamp is [nat, t]: nat says NaT, else t orders the instants       *)
(* (year, month, day, hour).  The reference tables hold their DATETIME as  *)
(* [year, month, day, hour].                                               *)
(***************************************************************************)
NaT == [nat |-> TRUE, t |-> 0]

Instant(y, m, d, h) == [nat |-> FALSE, t |-> ((y * 100 + m) * 100 + d) * 100 + h]

\* pd.to_datetime of a REPORT DATE: month/day/year text is midnight of that
\* day, NULL is NaT.
ToDatetime(txt) ==
    IF txt = None THEN NaT
    ELSE LET g == SplitOn(txt, "/")
         IN  Instant(NumVal(g[3]), NumVal(g[1]), NumVal(g[2]), 0)

\* pd.to_datetime of a reference DATETIME.
MasterDatetime(d) == Instant(d.year, d.month, d.day, d.hour)

\* SELECT "ISIN" AS "IDENTIFIER", "PRICE" AS "MASTER_PRICE", "DATETIME"
\* FROM bond_prices, with the dt column added (lines 161-168).
Bonds(m) ==
    [i \in 1..Len(m.bond_prices) |->
        [IDENTIFIER   |-> m.bond_prices[i].ISIN,
         MASTER_PRICE |-> m.bond_prices[i].PRICE,
         dt           |-> MasterDatetime(m.bond_prices[i].DATETIME)]]

\* The same from equity_prices, keyed by SYMBOL (lines 170-177).
Equities(m) ==
    [i \in 1..Len(m.equity_prices) |->
        [IDENTIFIER   |-> m.equity_prices[i].SYMBOL,
         MASTER_PRICE |-> m.equity_prices[i].PRICE,
         dt           |-> MasterDatetime(m.equity_prices[i].DATETIME)]]

\* sort_values('dt') is not a stable sort: every arrangement of the rows
\* in ascending dt, NaT last, is a possible outcome.
SortKey(row) == IF row.dt.nat THEN 0 ELSE row.dt.t

Ascending(rows, p) ==
    \A i \in 1..(Len(rows) - 1) :
        \/ rows[p[i + 1]].dt.nat
        \/ ~rows[p[i]].dt.nat /\ SortKey(rows[p[i]]) <= SortKey(rows[p[i + 1]])

SortedByDt(rows) ==
    { [i \in 1..Len(rows) |-> rows[p[i]]] :
        p \in { q \in Permutations(1..Len(rows)) : Ascending(rows, q) } }

\* fund_df['SYMBOL'].fillna(fund_df['ISIN'])
Identifier(row) ==
    IF row["SYMBOL"] # None THEN row["SYMBOL"] ELSE row["ISIN"]

\* fund_df with IDENTIFIER and dt (lines 187-189).
FundDf(table) ==
    [i \in 1..Len(table) |->
        [row        |-> table[i],
         IDENTIFIER |-> Identifier(table[i]),
         dt         |-> ToDatetime(table[i]["REPORT DATE"])]]

\* The wrong direction: the nearest observation at or after the holding.
AsOfForward(left, right) ==
    LET later == { j \in 1..Len(right) :
                     /\ right[j].IDENTIFIER = left.IDENTIFIER
                     /\ right[j].dt.t >= left.dt.t }
    IN  IF later = {} THEN NaN ELSE right[Min(later)].MASTER_PRICE

\* merge_asof(on='dt', by='IDENTIFIER', direction='backward') for one left
\* row: the last row of the sorted right table with the same IDENTIFIER
\* and dt not after the left row's; NaN when there is none.
AsOfBackward(left, right) ==
    LET earlier == { j \in 1..Len(right) :
                       /\ right[j].IDENTIFIER = left.IDENTIFIER
                       /\ right[j].dt.t <= left.dt.t }
    IN  IF earlier = {} THEN NaN ELSE right[Max(earlier)].MASTER_PRICE

\* Float subtraction: NaN when either side is NaN.
Minus(a, b) ==
    IF a.k = "num" /\ b.k = "num" THEN Num(a.v - b.v) ELSE NaN

\* merge_asof raises ValueError when a left key is null.
MergeRaises(fund_df) == \E i \in 1..Len(fund_df) : fund_df[i].dt.nat

\* The rows written for sorted holdings and a sorted master table.
ReconciliationRows(fund_df, master_df) ==
    [i \in 1..Len(fund_df) |->
        LET mp == AsOfBackward(fund_df[i], master_df)
        IN  [row          |-> fund_df[i].row,
             IDENTIFIER   |-> fund_df[i].IDENTIFIER,
             dt           |-> fund_df[i].dt,
             MASTER_PRICE |-> mp,
             PRICE_DIFF   |-> Minus(fund_df[i].row["PRICE"], mp)]]

(***************************************************************************)
(* SpecRecon: generate_reconciliation_report on the store an ingest_csv    *)
(* run has left and on reference tables drawn from a pool.                 *)
(***************************************************************************)
MaxHoldingFiles == 2
MaxObservations == 3

At(y, m, d, h) == [year |-> y, month |-> m, day |-> d, hour |-> h]

EquityPool ==
    { [SYMBOL |-> "AAA", PRICE |-> Num(9),  DATETIME |-> At(2022, 12, 30, 0)],
      [SYMBOL |-> "AAA", PRICE |-> Num(10), DATETIME |-> At(2022, 12, 31, 0)],
      [SYMBOL |-> "AAA", PRICE |-> Num(11), DATETIME |-> At(2022, 12, 31, 0)],
      [SYMBOL |-> "AAA", PRICE |-> Num(12), DATETIME |-> At(2022, 12, 31, 16)],
      [SYMBOL |-> "BBB", PRICE |-> Num(19), DATETIME |-> At(2023, 2, 28, 0)],
      [SYMBOL |-> "BBB", PRICE |-> Num(18), DATETIME |-> At(2023, 3, 1, 0)] }

BondPool ==
    { [ISIN |-> "GB03", PRICE |-> Num(98), DATETIME |-> At(2023, 1, 15, 0)],
      [ISIN |-> "GB03", PRICE |-> Num(97), DATETIME |-> At(2023, 2, 28, 0)],
      [ISIN |-> "US01", PRICE |-> Num(55), DATETIME |-> At(2022, 1, 1, 0)] }

\* The rows of a set, in some fixed table order.
RECURSIVE AsTable(_)
AsTable(S) ==
    IF S = {} THEN << >>
    ELSE LET x == CHOOSE y \in S : TRUE IN << x >> \o AsTable(S \ {x})

MasterChoices ==
    { [bond_prices |-> AsTable(p[1]), equity_prices |-> AsTable(p[2])] :
        p \in { q \in (SUBSET BondPool) \X (SUBSET EquityPool) :
                  Cardinality(q[1]) + Cardinality(q[2]) <= MaxObservations } }

\* The store and the log a whole run of ingest_csv leaves for a folder,
\* given as the listed files in order: each entry is a name, the pair
\* parse_filename returns for it and the file's content.
AfterFile(before, r) ==
    [rows |-> before.rows \o r.rows, log |-> before.log \o r.log]

RECURSIVE IngestResult(_, _)
IngestResult(entries, n) ==
    IF n = 0 THEN [rows |-> << >>, log |-> << >>]
    ELSE AfterFile(IngestResult(entries, n - 1),
                   LoadAndStore(entries[n].name, entries[n].parsed[1],
                                entries[n].parsed[2], entries[n].file))

Names(entries) == [i \in 1..Len(entries) |-> entries[i].name]

OnDisk(fl) ==
    [i \in 1..Len(fl) |->
        [name |-> fl[i], parsed |-> ParsedName[fl[i]], file |-> Disk[fl[i]]]]

DiskOrder ==
    << "Whitestone_31-12-2022.csv", "gohen.28.02.2023.csv",
       "Magnum_15-01-2023.csv", "Leeder_2023-01-31.csv",
       "Report_01-31-2023.csv", "Virtous_20230131.csv",
       "Applebead 2022-12-31.csv" >>

\* The folders of at most n files, listed in the order above.
FoldersUpTo(n) ==
    { SelectSeq(DiskOrder, LAMBDA f : f \in S) :
        S \in { T \in SUBSET SeqToSet(DiskOrder) : Cardinality(T) <= n } }

AfterIngest(entries) ==
    /\ files = Names(entries) /\ idx = Len(entries)
    /\ \E r \in { IngestResult(entries, Len(entries)) } :
          store = r.rows /\ runlog = r.log
    /\ filename = "" /\ parsed = << >> /\ raw_string = None

InitRecon ==
    /\ pc = "done"
    /\ \E fl \in FoldersUpTo(MaxHoldingFiles) : AfterIngest(OnDisk(fl))
    /\ master \in MasterChoices
    /\ recon = << >> /\ perf = << >> /\ out_dir = FALSE

\* The whole method: read and sort both sides, merge, subtract, write the
\* report; a ValueError of merge_asof propagates and nothing is written.
GenerateReconciliationReport ==
    /\ pc = "done"
    /\ IF MergeRaises(FundDf(store))
       THEN /\ pc' = "reconciliation raised"
            /\ recon' = recon /\ out_dir' = out_dir
       ELSE /\ pc' = "reconciled"
            /\ out_dir' = TRUE
            /\ \E master_df \in SortedByDt(Bonds(master) \o Equities(master)),
                  fund_df \in SortedByDt(FundDf(store)) :
                  recon' = ReconciliationRows(fund_df, master_df)
    /\ UNCHANGED <<filename, parsed, raw_string, files, idx, store, runlog, master, perf>>

NextRecon == GenerateReconciliationReport

SpecRecon == InitRecon /\ [][NextRecon]_vars

(***************************************************************************)
(* Claims about the reconciliation report.                                 *)
(***************************************************************************)
\* The observations of both reference tables under one identifier.
Observations ==
    { [id |-> master.bond_prices[i].ISIN, price |-> master.bond_prices[i].PRICE,
       at |-> master.bond_prices[i].DATETIME] : i \in 1..Len(master.bond_prices) }
    \cup
    { [id |-> master.equity_prices[i].SYMBOL, price |-> master.equity_prices[i].PRICE,
       at |-> master.equity_prices[i].DATETIME] : i \in 1..Len(master.equity_prices) }

\* Instant a is not after instant b, both [year, month, day, hour].
NotAfter(a, b) ==
    \/ a.year < b.year
    \/ a.year = b.year /\ a.month < b.month
    \/ a.year = b.year /\ a.month = b.month /\ a.day < b.day
    \/ a.year = b.year /\ a.month = b.month /\ a.day = b.day /\ a.hour <= b.hour

\* Midnight of a month/day/year report date.
ReportInstant(txt) ==
    LET g == SplitOn(txt, "/") IN At(NumVal(g[3]), NumVal(g[1]), NumVal(g[2]), 0)

\* The observations a holding may be matched with: same identifier (its
\* symbol, or its ISIN when it has no symbol), not after its report date.
Eligible(h) ==
    { o \in Observations :
        /\ o.id = (IF h["SYMBOL"] # None THEN h["SYMBOL"] ELSE h["ISIN"])
        /\ NotAfter(o.at, ReportInstant(h["REPORT DATE"])) }

\* C4: whenever generate_reconciliation_report has run, it has written a
\* report with exactly one row per holding of the store, and a holding
\* without report date has a null matched price in it.
C4_OneRowPerHolding ==
    pc \in { "reconciled", "reconciliation raised" } =>
        /\ pc = "reconciled"
        /\ Len(recon) = Len(store)
        /\ \A i \in 1..Len(store) :
              /\ Cardinality({ k \in 1..Len(recon) : recon[k].row = store[i] }) = 1
              /\ store[i]["REPORT DATE"] = None =>
                    \A k \in 1..Len(recon) :
                        recon[k].row = store[i] => recon[k].MASTER_PRICE = NaN

\* C7: in a written report every holding of the store has its row, and in
\* every row the matched master price is the price of an observation with
\* the holding's identifier that is not after its report date and is the
\* latest such; when there is none, matched price and difference are
\* null; otherwise the difference is holding price - matched price.
C7_AsOfMatch ==
    pc = "reconciled" =>
        /\ \A i \in 1..Len(store) : \E k \in 1..Len(recon) : recon[k].row = store[i]
        /\ \A k \in 1..Len(recon) :
              LET h == recon[k].row IN
              IF Eligible(h) = {}
              THEN recon[k].MASTER_PRICE = NaN /\ recon[k].PRICE_DIFF = NaN
              ELSE \E o \in Eligible(h) :
                      /\ \A o2 \in Eligible(h) : NotAfter(o2.at, o.at)
                      /\ recon[k].MASTER_PRICE = o.price
                      /\ recon[k].PRICE_DIFF =
                            (IF h["PRICE"].k = "num"
                             THEN Num(h["PRICE"].v - o.price.v) ELSE NaN)

\* C7 witness: a written report with a holding matched to the later of two
\* earlier observations, one with an observation only after its date
\* (null match), and a non-zero difference.
C7_Witness ==
    /\ pc = "reconciled"
    /\ \E k \in 1..Len(recon) :
          /\ Cardinality(Eligible(recon[k].row)) >= 2
          /\ recon[k].MASTER_PRICE.k = "num"
          /\ recon[k].PRICE_DIFF.k = "num" /\ recon[k].PRICE_DIFF.v # 0
    /\ \E k \in 1..Len(recon) :
          /\ recon[k].MASTER_PRICE = NaN
          /\ \E o \in Observations : o.id = recon[k].IDENTIFIER

(***************************************************************************)
(* generate_performance_report (lines 208-247).                            *)
(* MARKET VALUE and REALISED P/L are REAL cells as above.  A rate of       *)
(* return is [k, n, d]: k = "num" is the quotient n / d in lowest terms    *)
(* with d > 0; "inf", "ninf" and "nan" are what float division by zero     *)
(* gives.                                                                  *)
(***************************************************************************)
Abs(x) == IF x < 0 THEN -x ELSE x

RECURSIVE GCD(_, _)
GCD(a, b) == IF b = 0 THEN a ELSE GCD(b, a % b)

Ratio(n, d) ==
    [k |-> "num", n |-> n \div GCD(Abs(n), d), d |-> d \div GCD(Abs(n), d)]

PosInf == [k |-> "inf", n |-> 0, d |-> 1]
NegInf == [k |-> "ninf", n |-> 0, d |-> 1]
NaNRatio == [k |-> "nan", n |-> 0, d |-> 1]

\* Float addition: NaN when either side is NaN.
Plus(a, b) ==
    IF a.k = "num" /\ b.k = "num" THEN Num(a.v + b.v) ELSE NaN

\* Float division of two columns: x / 0 is +inf or -inf by the sign of x,
\* 0 / 0 is NaN; no exception.
Divide(a, b) ==
    IF a.k # "num" \/ b.k # "num" THEN NaNRatio
    ELSE IF b.v = 0
         THEN (IF a.v > 0 THEN PosInf ELSE IF a.v < 0 THEN NegInf ELSE NaNRatio)
    ELSE IF b.v > 0 THEN Ratio(a.v, b.v)
    ELSE Ratio(-a.v, -b.v)

\* x > y between two rates that are not NaN.
RorGreater(x, y) ==
    /\ x # y
    /\ \/ x.k = "inf"
       \/ y.k = "ninf"
       \/ x.k = "num" /\ y.k = "num" /\ x.n * y.d > y.n * x.d

\* The four selected columns and dt (lines 210-219).
PerformanceDf(table) ==
    [i \in 1..Len(table) |->
        [FUND_NAME    |-> table[i]["FUND NAME"],
         REPORT_DATE  |-> table[i]["REPORT DATE"],
         dt           |-> ToDatetime(table[i]["REPORT DATE"]),
         MARKET_VALUE |-> table[i]["MARKET VALUE"],
         REALISED_PL  |-> table[i]["REALISED P/L"]]]

\* The order of two characters by code point (letters only).
CodeOrder(c) ==
    CHOOSE i \in 1..Len(UpperCase \o LowerCase) : Ch(UpperCase \o LowerCase, i) = c

\* a < b between two strings.
RECURSIVE StrLess(_, _)
StrLess(a, b) ==
    IF b = "" THEN FALSE
    ELSE IF a = "" THEN TRUE
    ELSE IF Ch(a, 1) = Ch(b, 1)
         THEN StrLess(SubSeq(a, 2, Len(a)), SubSeq(b, 2, Len(b)))
    ELSE CodeOrder(Ch(a, 1)) < CodeOrder(Ch(b, 1))

\* groupby(['FUND NAME', 'dt', 'REPORT DATE']): the keys of the groups; a
\* row with a null key (no fund name, or no report date and so NaT) is in
\* no group.
GroupKeys(df) ==
    { << df[i].FUND_NAME, df[i].dt, df[i].REPORT_DATE >> :
        i \in { j \in 1..Len(df) : df[j].FUND_NAME # None /\ ~df[j].dt.nat } }

\* The group keys come out sorted; REPORT DATE is the text of dt, so two
\* keys with the same fund and dt are the same key.
KeyBefore(x, y) ==
    \/ StrLess(x[1], y[1])
    \/ x[1] = y[1] /\ x[2].t < y[2].t

SortedKeys(keys) ==
    [r \in 1..Cardinality(keys) |->
        CHOOSE x \in keys : Cardinality({ y \in keys : KeyBefore(y, x) }) = r - 1]

\* 'sum' of one column over some rows: NaN cells are skipped, an empty or
\* all-NaN selection sums to 0.
RECURSIVE SumSkipNa(_, _, _)
SumSkipNa(rows, col, n) ==
    IF n = 0 THEN 0
    ELSE SumSkipNa(rows, col, n - 1)
         + (IF rows[n][col].k = "num" THEN rows[n][col].v ELSE 0)

InGroup(df, key) ==
    SelectSeq(df, LAMBDA r : << r.FUND_NAME, r.dt, r.REPORT_DATE >> = key)

Aggregate(key, rows) ==
    [FUND_NAME    |-> key[1],
     dt           |-> key[2],
     REPORT_DATE  |-> key[3],
     MARKET_VALUE |-> Num(SumSkipNa(rows, "MARKET_VALUE", Len(rows))),
     REALISED_PL  |-> Num(SumSkipNa(rows, "REALISED_PL", Len(rows)))]

AggregateAll(df, keys) ==
    [r \in 1..Len(keys) |-> Aggregate(keys[r], InGroup(df, keys[r]))]

\* monthly after groupby/agg/reset_index and sort_values(['FUND NAME',
\* 'dt']) (lines 221-226): one row per group, by fund name, then by dt.
Monthly(df) == AggregateAll(df, SortedKeys(GroupKeys(df)))

\* shift(1) on the whole column: the previous row's value, whatever its fund.
PlainShift(monthly, i) ==
    IF i = 1 THEN NaN ELSE monthly[i - 1].MARKET_VALUE

\* groupby('FUND NAME')['MARKET VALUE'].shift(1): the value of the nearest
\* earlier row of the same fund, NaN when there is none (line 229).
GroupShift(monthly, i) ==
    IF \A j \in 1..(i - 1) : monthly[j].FUND_NAME # monthly[i].FUND_NAME
    THEN NaN
    ELSE monthly[Max({ j \in 1..(i - 1) :
                         monthly[j].FUND_NAME = monthly[i].FUND_NAME })].MARKET_VALUE

\* (MARKET VALUE - STARTING_MV + REALISED P/L) / STARTING_MV (lines 232-235).
RateOfReturn(mv, starting_mv, pl) ==
    Divide(Plus(Minus(mv, starting_mv), pl), starting_mv)

Rated(row, starting_mv) ==
    [FUND_NAME    |-> row.FUND_NAME,
     dt           |-> row.dt,
     REPORT_DATE  |-> row.REPORT_DATE,
     MARKET_VALUE |-> row.MARKET_VALUE,
     REALISED_PL  |-> row.REALISED_PL,
     STARTING_MV  |-> starting_mv,
     ROR          |-> RateOfReturn(row.MARKET_VALUE, starting_mv, row.REALISED_PL)]

WithROR(monthly) ==
    [i \in 1..Len(monthly) |-> Rated(monthly[i], GroupShift(monthly, i))]

\* dropna(subset=['ROR']): only NaN is dropped, an infinite rate stays.
DropNaROR(monthly) == SelectSeq(monthly, LAMBDA r : r.ROR.k # "nan")

\* sort_values(['dt', 'ROR'], ascending=[True, False]) is a stable sort:
\* row i comes before row j when its dt is earlier, or the same with a
\* greater rate, or both the same and i was before j.
ComesBefore(t, i, j) ==
    \/ t[i].dt.t < t[j].dt.t
    \/ t[i].dt = t[j].dt /\ RorGreater(t[i].ROR, t[j].ROR)
    \/ t[i].dt = t[j].dt /\ t[i].ROR = t[j].ROR /\ i < j

SortByDtAndROR(t) ==
    [r \in 1..Len(t) |->
        t[CHOOSE i \in 1..Len(t) :
            Cardinality({ j \in 1..Len(t) : ComesBefore(t, j, i) }) = r - 1]]

\* drop_duplicates('dt'): the first row of every dt is kept.
FirstOfDt(t) == { i \in 1..Len(t) : \A j \in 1..(i - 1) : t[j].dt # t[i].dt }

DropDuplicates(t) ==
    [r \in 1..Cardinality(FirstOfDt(t)) |->
        t[CHOOSE i \in FirstOfDt(t) :
            Cardinality({ j \in FirstOfDt(t) : j < i }) = r - 1]]

\* monthly as it is ranked (lines 210-238), and best_funds (lines 241-242).
RatedMonthly(table) == DropNaROR(WithROR(Monthly(PerformanceDf(table))))

BestFunds(table) == DropDuplicates(SortByDtAndROR(RatedMonthly(table)))

(***************************************************************************)
(* SpecPerf: generate_performance_report on the store an ingest_csv run    *)
(* has left for a folder of monthly snapshot files.                        *)
(***************************************************************************)
MaxSnapshots == 4

\* One holding with the given market value and realised P/L.
Holding(mv, pl) ==
    HoldingRow("Equity", "AAA", "H", "US01", Num(10), Num(1), pl, mv)

\* The contents a snapshot file may have, by the date in its name.
NovemberContents ==
    { << Holding(Num(100), Num(0)) >>,
      << Holding(Num(0), Num(5)) >>,
      << Holding(NaN, Num(5)) >> }

DecemberContents ==
    { << Holding(Num(110), Num(5)) >>,
      << Holding(Num(60), Num(2)), Holding(Num(50), Num(3)) >>,
      << Holding(Num(0), Num(0)) >>,
      << Holding(Num(0), Num(-5)) >> }

JanuaryContents ==
    { << Holding(Num(105), Num(2)) >>,
      << Holding(Num(110), Num(5)) >> }

\* The snapshot files of a folder, in listing order, with their possible
\* contents: three month ends of two funds, a file whose name has a date
\* that is no month end, and one that names no fund.
SnapshotFiles ==
    << [name |-> "Gohen_30-11-2022.csv",      contents |-> NovemberContents],
       [name |-> "Gohen_31-12-2022.csv",      contents |-> DecemberContents],
       [name |-> "Gohen_31-01-2023.csv",      contents |-> JanuaryContents],
       [name |-> "Whitestone_30-11-2022.csv", contents |-> NovemberContents],
       [name |-> "Whitestone_31-12-2022.csv", contents |-> DecemberContents],
       [name |-> "Whitestone_31-01-2023.csv", contents |-> JanuaryContents],
       [name |-> "Whitestone_15-01-2023.csv", contents |-> JanuaryContents],
       [name |-> "Report_31-01-2023.csv",     contents |-> JanuaryContents] >>

ParsedSnapshot[i \in 1..Len(SnapshotFiles)] == parse_filename(SnapshotFiles[i].name)

\* The folders made of at most n of the first k snapshot files.
RECURSIVE SnapshotFolders(_, _)
SnapshotFolders(k, n) ==
    IF k = 0 THEN { << >> }
    ELSE LET without == SnapshotFolders(k - 1, n)
             with == IF n = 0 THEN {}
                     ELSE { Append(f, [name   |-> SnapshotFiles[k].name,
                                       parsed |-> ParsedSnapshot[k],
                                       file   |-> CsvFile(TRUE, c)]) :
                              f \in SnapshotFolders(k - 1, n - 1),
                              c \in SnapshotFiles[k].contents }
         IN  without \cup with

MonthlyFolders == SnapshotFolders(Len(SnapshotFiles), MaxSnapshots)

InitPerf ==
    /\ pc = "done"
    /\ \E entries \in MonthlyFolders : AfterIngest(entries)
    /\ master = << >> /\ recon = << >> /\ perf = << >>
    /\ out_dir \in BOOLEAN

\* The whole method: read, aggregate, rate, rank, write the report; to_csv
\* raises OSError when the directory out/ does not exist.
GeneratePerformanceReport ==
    /\ pc = "done"
    /\ IF out_dir
       THEN /\ pc' = "performance reported"
            /\ perf' = BestFunds(store)
       ELSE /\ pc' = "performance raised"
            /\ perf' = perf
    /\ UNCHANGED <<filename, parsed, raw_string, files, idx, store, runlog, master, recon, out_dir>>

NextPerf == GeneratePerformanceReport

SpecPerf == InitPerf /\ [][NextPerf]_vars

(***************************************************************************)
(* Claims about the performance report.  A snapshot is a fund and a        *)
(* report date some holding of the store carries; its values are read off  *)
(* the store's rows.                                                       *)
(***************************************************************************)
Snapshots ==
    { << store[i]["FUND NAME"], store[i]["REPORT DATE"] >> :
        i \in { j \in 1..Len(store) :
                  store[j]["FUND NAME"] # None /\ store[j]["REPORT DATE"] # None } }

\* The sum of a column over the holdings of one snapshot, blanks left out.
RECURSIVE Summed(_, _, _)
Summed(snap, col, n) ==
    IF n = 0 THEN 0
    ELSE Summed(snap, col, n - 1)
         + (IF /\ << store[n]["FUND NAME"], store[n]["REPORT DATE"] >> = snap
               /\ store[n][col].k = "num"
            THEN store[n][col].v ELSE 0)

EndingMV(snap) == Summed(snap, "MARKET VALUE", Len(store))
RealisedPL(snap) == Summed(snap, "REALISED P/L", Len(store))

\* The earlier snapshots of the same fund.
Earlier(snap) ==
    { s \in Snapshots :
        /\ s[1] = snap[1] /\ s[2] # snap[2]
        /\ NotAfter(ReportInstant(s[2]), ReportInstant(snap[2])) }

\* The immediately preceding one, when there is an earlier one.
Preceding(snap) ==
    CHOOSE s \in Earlier(snap) :
        \A s2 \in Earlier(snap) : NotAfter(ReportInstant(s2[2]), ReportInstant(s[2]))

\* A snapshot whose starting market value is defined and not zero.
HasStartingValue(snap) ==
    Earlier(snap) # {} /\ EndingMV(Preceding(snap)) # 0

\* The row r carries the rate (ending - starting + P/L) / starting of snap.
CarriesRate(r, snap) ==
    /\ r.ROR.k = "num"
    /\ r.ROR.n * EndingMV(Preceding(snap))
         = (EndingMV(snap) - EndingMV(Preceding(snap)) + RealisedPL(snap)) * r.ROR.d

IsRowOf(r, snap) == r.FUND_NAME = snap[1] /\ r.REPORT_DATE = snap[2]

\* C3: in a written performance report no row belongs to a fund period
\* whose starting market value is undefined (first observed period of the
\* fund) or zero.
C3_ZeroStartExcluded ==
    pc = "performance reported" =>
        \A k \in 1..Len(perf) :
            \E snap \in Snapshots : IsRowOf(perf[k], snap) /\ HasStartingValue(snap)

\* C8: in a written performance report every period with a snapshot whose
\* rate of return is defined (starting value defined and not zero) has
\* exactly one row, that row is one of these snapshots and its rate is >=
\* the rate of each of them; every other period has no row.
C8_BestFundSelection ==
    pc = "performance reported" =>
        \A period \in { s[2] : s \in Snapshots } :
            \A eligible \in { { s \in Snapshots : s[2] = period /\ HasStartingValue(s) } } :
                /\ Cardinality({ k \in 1..Len(perf) : perf[k].REPORT_DATE = period })
                     = (IF eligible = {} THEN 0 ELSE 1)
                /\ \A k \in 1..Len(perf) :
                      perf[k].REPORT_DATE = period =>
                         /\ \E s \in eligible : IsRowOf(perf[k], s) /\ CarriesRate(perf[k], s)
                         /\ \A s \in eligible :
                               \* rate of the row >= rate of s, denominators cleared
                               \/ EndingMV(Preceding(s)) > 0
                                  /\ perf[k].ROR.n * EndingMV(Preceding(s))
                                       >= (EndingMV(s) - EndingMV(Preceding(s)) + RealisedPL(s))
                                            * perf[k].ROR.d
                               \/ EndingMV(Preceding(s)) < 0
                                  /\ perf[k].ROR.n * EndingMV(Preceding(s))
                                       <= (EndingMV(s) - EndingMV(Preceding(s)) + RealisedPL(s))
                                            * perf[k].ROR.d

\* C9: when the performance report is written, the table that is ranked
\* has no row for a fund's first observed period, has a row for every
\* later period of a fund whose starting value is not zero, and each of
\* its rows with a non-zero starting value carries as starting value the
\* summed market value of the same fund's immediately preceding observed
\* period and as rate (summed market value - starting value + summed
\* realised P/L) / starting value; the rows written are rows of this table.
C9_RateOfReturn ==
    pc = "performance reported" =>
        \A rated \in { RatedMonthly(store) } :
            /\ \A i \in 1..Len(rated) :
                  \E snap \in Snapshots :
                     /\ IsRowOf(rated[i], snap)
                     /\ Earlier(snap) # {}
                     /\ rated[i].MARKET_VALUE = Num(EndingMV(snap))
                     /\ rated[i].STARTING_MV = Num(EndingMV(Preceding(snap)))
                     /\ HasStartingValue(snap) => CarriesRate(rated[i], snap)
            /\ \A snap \in Snapshots :
                  HasStartingValue(snap) =>
                     Cardinality({ i \in 1..Len(rated) : IsRowOf(rated[i], snap) }) = 1
            /\ \A k \in 1..Len(perf) : \E i \in 1..Len(rated) : perf[k] = rated[i]

\* C9 witness: a written report for a store with two funds, one of them
\* with market values 100, 110, 105 and P/L 0, 5, 2 in three successive
\* periods; the row of its second period has starting value 100 and rate
\* 15/100, and its third period is rated against 110.
C9_Witness ==
    /\ pc = "performance reported"
    /\ Cardinality({ s[1] : s \in Snapshots }) = 2
    /\ \E k \in 1..Len(perf) :
          /\ perf[k].MARKET_VALUE = Num(110) /\ perf[k].REALISED_PL = Num(5)
          /\ perf[k].STARTING_MV = Num(100)
          /\ perf[k].ROR.k = "num" /\ perf[k].ROR.n * 100 = 15 * perf[k].ROR.d
          /\ \E j \in 1..Len(perf) :
                /\ perf[j].FUND_NAME = perf[k].FUND_NAME
                /\ perf[j].MARKET_VALUE = Num(105) /\ perf[j].REALISED_PL = Num(2)
                /\ perf[j].STARTING_MV = Num(110)
                /\ perf[j].ROR.k = "num" /\ perf[j].ROR.n * 110 = -3 * perf[j].ROR.d

(***************************************************************************)
(* parse_filename of src/orig_file.py (lines 64-92), the module-level      *)
(* version of the same function: no initial fund_name = None and no        *)
(* check of the match before match.group(0).                               *)
(***************************************************************************)
orig_parse_filename(fn) ==
    IF DateToken(fn) = None
    THEN [raised |-> "AttributeError", value |-> << >>]      \* line 76
    ELSE IF FundName(fn) = None
    THEN [raised |-> "UnboundLocalError", value |-> << >>]   \* lines 87, 92
    ELSE [raised |-> None, value |-> << FundName(fn), ReportDate(fn) >>]

(***************************************************************************)
(* SpecToken: either version of parse_filename applied to one file name,   *)
(* the names built around date tokens with all kinds of delimiters.        *)
(***************************************************************************)
TokenPrefixes == { "", "Gohen_", "Fund 7," }
FirstGroups == { "31", "2022", "1" }
SecondGroups == { "12", "2" }
ThirdGroups == { "2022", "31" }
FirstDelimiters == { "-", ".", "_", "/", "+", " ", "\t", ",", "#", "x" }
SecondDelimiters == { "-", " ", "~" }

TokenInputs ==
    { p \o a \o d1 \o b \o d2 \o c \o ".csv" :
        p \in TokenPrefixes, a \in FirstGroups, d1 \in FirstDelimiters,
        b \in SecondGroups, d2 \in SecondDelimiters, c \in ThirdGroups }
    \cup { p \o t \o ".csv" :
             p \in TokenPrefixes,
             t \in { "20221231", "202212311", "2022123", "positions",
                     "31-12-2022_20221231", "20221231_31-12-2022",
                     "12022-12-31", "2022-12-3" } }

InitToken ==
    /\ pc = "parse"
    /\ filename \in TokenInputs
    /\ parsed = << >> /\ raw_string = None
    /\ Idle

ParseFilenameOrig ==
    /\ pc = "parse"
    /\ raw_string' = DateToken(filename)
    /\ \E r \in { orig_parse_filename(filename) } :
          IF r.raised = None
          THEN pc' = "parsed" /\ parsed' = r.value
          ELSE pc' = r.raised /\ parsed' = parsed
    /\ UNCHANGED <<filename, files, idx, store, runlog, master, recon, perf, out_dir>>

NextToken == ParseFilename \/ ParseFilenameOrig

SpecToken == InitToken /\ [][NextToken]_vars

(***************************************************************************)
(* Claim about the location of the date token.                             *)
(***************************************************************************)
IsAlphanumeric(c) ==
    IsDigit(c) \/ \E i \in 1..Len(UpperCase \o LowerCase) : Ch(UpperCase \o LowerCase, i) = c

AllDigits(t) == \A i \in 1..Len(t) : IsDigit(Ch(t, i))

\* t is 8 digits, or 2-4 digits, 2 digits, 2-4 digits with one
\* non-alphanumeric character between the groups.
TokenShaped(t) ==
    \/ Len(t) = 8 /\ AllDigits(t)
    \/ \E la \in 2..4, lc \in 2..4 :
          /\ Len(t) = la + lc + 4
          /\ AllDigits(SubSeq(t, 1, la))
          /\ ~IsAlphanumeric(Ch(t, la + 1))
          /\ AllDigits(SubSeq(t, la + 2, la + 3))
          /\ ~IsAlphanumeric(Ch(t, la + 4))
          /\ AllDigits(SubSeq(t, la + 5, la + 4 + lc))

\* The positions of the name where a substring of that shape starts.
ShapedStarts(s) ==
    { i \in 1..Len(s) :
        \E n \in 8..12 : i + n - 1 <= Len(s) /\ TokenShaped(SubSeq(s, i, i + n - 1)) }

\* C11: once parse_filename has run on a file name it has returned and not
\* raised; when the name has a substring of the token shape, the token
\* found is one, starting at the leftmost position where one starts; when
\* it has none, no token is found and the report date is unknown.
C11_TokenLocation ==
    pc # "parse" =>
        /\ pc = "parsed"
        /\ IF ShapedStarts(filename) = {}
           THEN raw_string = None /\ parsed[2] = None
           ELSE /\ raw_string # None
                /\ TokenShaped(raw_string)
                /\ raw_string = SubSeq(filename, Min(ShapedStarts(filename)),
                                       Min(ShapedStarts(filename)) + Len(raw_string) - 1)

=============================================================================
